---- MODULE Spec2Model ----
(***************************************************************************)
(* Model of bot.py: the QIS campus chatbot.  A Flask process that loads    *)
(* its configuration at import time, serves GET /status from the           *)
(* time-of-day simulator get_campus_status, and serves POST /chat by       *)
(* forwarding the conversation to the external model API in one blocking   *)
(* call and shaping the reply (or the failure) into JSON.                  *)
(*                                                                         *)
(* Python values are modelled as follows.                                  *)
(*  - str used as data (roles, texts, uris, titles, metric values): a TLA+ *)
(*    string.  ABSENT marks an attribute/key that does not exist on the    *)
(*    object, NONE marks the value None; "" is the empty string.           *)
(*  - str that is sliced or concatenated (error messages): a sequence of   *)
(*    one-character strings, so that [:50] and the f-string are computed.  *)
(*  - dict: a function from its keys; list: a sequence.                    *)
(***************************************************************************)
EXTENDS Integers, Sequences, FiniteSets, TLC

VARIABLES
    proc,        \* life of the process: "booting", "serving", "aborted"
    client,      \* module global `client`: "unbound" until line 25 ran, then "Handle"
    hour,        \* datetime.now().hour
    pc,          \* position of the /chat request: "idle", "awaiting", "done"
    request,     \* body of the /chat request the browser sent
    submitted,   \* arguments of the generate_content call in flight
    apiCalls,    \* number of generate_content calls issued for the request
    parsed,      \* TRUE once the handler has called request.get_json()
    handled,     \* TRUE once the chat handler was entered for the request
    apiOutcome,  \* what the external API did for the request
    resp,        \* HTTP response of the /chat request
    statusResp   \* HTTP response of the last GET /status, with the hour it was served at

vars == <<proc, client, hour, pc, request, submitted, apiCalls, parsed, handled,
          apiOutcome, resp, statusResp>>

----------------------------------------------------------------------------
(* Bounds *)

MaxHist == 2      \* longest history list in a request body
MaxAttrs == 2     \* longest grounding_attributions list in a reply
MaxMsgLen == 52   \* longest provider error message

----------------------------------------------------------------------------
(* Python value helpers *)

ABSENT == "<absent>"
NONE == "<None>"

\* truthiness of an optional str: None and "" are falsy (an absent attribute
\* is never tested for truth: reading it raises)
Truthy(s) == s # NONE /\ s # "" /\ s # ABSENT

Min(a, b) == IF a < b THEN a ELSE b

\* s[:n] on a str
Slice(s, n) == SubSeq(s, 1, Min(n, Len(s)))

----------------------------------------------------------------------------
(* Status simulator, bot.py 52-89 *)

PeakStart == 9
PeakEnd == 16
EveningEnd == 20

MetricNames == {"AI Lab 301 Occupancy", "Library Quiet Zone", "Main Server Health",
                "Campus Wi-Fi Status", "Power Supply"}

\* the dictionary of lines 77-83, built from the five locals of a branch
StatusDict(ai_lab_occupancy, library_zone, server_health, wifi_status, power_source) ==
    [n \in MetricNames |->
        CASE n = "AI Lab 301 Occupancy" -> ai_lab_occupancy
          [] n = "Library Quiet Zone" -> library_zone
          [] n = "Main Server Health" -> server_health
          [] n = "Campus Wi-Fi Status" -> wifi_status
          [] n = "Power Supply" -> power_source]

PeakValues ==
    StatusDict("High (85% occupied)", "Moderately Busy", "Degraded (High Load)",
               "Operational (Moderate Speed)", "Main Grid")
EveningValues ==
    StatusDict("Moderate (50% occupied)", "Quiet Zone", "Operational (Normal)",
               "Operational (Fast Speed)", "Main Grid")
OffHoursValues ==
    StatusDict("Low (5% occupied/Closed)", "Closed", "Operational (Low Load)",
               "Operational (Low Speed)", "Main Grid")

\* status_data with the upper limits of both windows included
status_data_inclusive(current_hour) ==
    IF PeakStart <= current_hour /\ current_hour <= PeakEnd THEN PeakValues
    ELSE IF PeakEnd <= current_hour /\ current_hour <= EveningEnd THEN EveningValues
    ELSE OffHoursValues

\* the if/elif/else of lines 57-74 and the dictionary of lines 77-83
status_data(current_hour) ==
    IF PeakStart <= current_hour /\ current_hour < PeakEnd THEN PeakValues
    ELSE IF PeakEnd <= current_hour /\ current_hour < EveningEnd THEN EveningValues
    ELSE OffHoursValues

\* the text injection: a fixed header followed by the JSON dump of status_data
status_text(current_hour) ==
    [header |-> "CURRENT CAMPUS STATUS (Use ONLY for live status queries)",
     json |-> status_data(current_hour)]

\* get_campus_status returns the pair (status_data, status_text)
get_campus_status(current_hour) ==
    <<status_data(current_hour), status_text(current_hour)>>

----------------------------------------------------------------------------
(* Error messages, bot.py 110, 200, 204 *)

ExcerptLen == 50

\* "An unexpected server error occurred. Please check the terminal for details."
GenericError ==
    <<"A","n"," ","u","n","e","x","p","e","c","t","e","d"," ","s","e","r","v","e","r"," ",
      "e","r","r","o","r"," ","o","c","c","u","r","r","e","d","."," ","P","l","e","a","s","e",
      " ","c","h","e","c","k"," ","t","h","e"," ","t","e","r","m","i","n","a","l"," ","f","o",
      "r"," ","d","e","t","a","i","l","s",".">>

\* "The Gemini AI service is currently unavailable. (API Error: "
ApiErrorPrefix ==
    <<"T","h","e"," ","G","e","m","i","n","i"," ","A","I"," ","s","e","r","v","i","c","e"," ",
      "i","s"," ","c","u","r","r","e","n","t","l","y"," ","u","n","a","v","a","i","l","a","b",
      "l","e","."," ","(","A","P","I"," ","E","r","r","o","r",":"," ">>

\* "...)" : the literal text that closes the f-string after the excerpt
ApiErrorClose == <<".", ".", ".", ")">>

\* the message with str(e) not cut
ApiErrorTextUncut(m) == ApiErrorPrefix \o m \o ApiErrorClose

\* f"The Gemini AI service is currently unavailable. (API Error: {str(e)[:50]}...)"
ApiErrorText(m) == ApiErrorPrefix \o Slice(m, ExcerptLen) \o ApiErrorClose

\* jsonify({"error": ...}), 500
ErrorResponse(text) == [status |-> 500, body |-> [error |-> text]]

\* the except clauses with the catch-all answering for provider errors only
OnExceptionNoCatchAll(exc) ==
    IF exc.type = "APIError"
    THEN ErrorResponse(ApiErrorText(exc.msg))
    ELSE [status |-> 500, body |-> [traceback |-> exc.type]]

\* the except clauses of chat: APIError first, then every other Exception
OnException(exc) ==
    IF exc.type = "APIError"
    THEN ErrorResponse(ApiErrorText(exc.msg))
    ELSE ErrorResponse(GenericError)

----------------------------------------------------------------------------
(* Request parsing and history translation, bot.py 113-160 *)

TRANSPORT_DATA == "bus_data.txt"

\* a raised exception; msg is str(e) and only matters for APIError
Raised(type, msg) == [raised |-> TRUE, type |-> type, msg |-> msg]
Returned(v) == [raised |-> FALSE, value |-> v]

\* data = request.get_json(); data.get('message', ''); data.get('history', [])
\* get_json raises (or yields None) for a missing or non-JSON body, and .get
\* does not exist on a JSON value that is not an object.
ParseRequest(body) ==
    IF body.kind # "object"
    THEN Raised("Exception", <<>>)
    ELSE Returned([user_message |-> IF body.message = ABSENT THEN "" ELSE body.message,
                   history |-> IF body.history.tag = "absent"
                               THEN [tag |-> "list", items |-> <<>>]
                               ELSE body.history])

\* the loop of lines 151-155, from index i on; message["role"] and
\* message["text"] raise KeyError on a turn that lacks the key
RECURSIVE AppendTurns(_, _, _)
AppendTurns(full_history, history, i) ==
    IF i > Len(history)
    THEN Returned(full_history)
    ELSE IF ~({"role", "text"} \subseteq DOMAIN history[i])
         THEN Raised("Exception", <<>>)
         ELSE AppendTurns(Append(full_history,
                                 [role |-> history[i]["role"],
                                  parts |-> <<[text |-> history[i]["text"]]>>]),
                          history, i + 1)

\* the new user message placed before the translated history
BuildFullHistoryUserFirst(history, user_message) ==
    IF history.tag # "list"
    THEN Raised("Exception", <<>>)
    ELSE LET t == AppendTurns(<<>>, history.items, 1)
         IN  IF t.raised
             THEN t
             ELSE Returned(<<[role |-> "user", parts |-> <<[text |-> user_message]>>]>>
                               \o t.value)

\* lines 150-160: translate the history, then append the new user message
BuildFullHistory(history, user_message) ==
    IF history.tag # "list"
    THEN Raised("Exception", <<>>)          \* iterating None raises TypeError
    ELSE LET t == AppendTurns(<<>>, history.items, 1)
         IN  IF t.raised
             THEN t
             ELSE Returned(Append(t.value,
                                  [role |-> "user", parts |-> <<[text |-> user_message]>>]))

\* lines 121-147: the system prompt embeds TRANSPORT_DATA and status_text
system_prompt(current_hour) ==
    [transport |-> TRANSPORT_DATA, status |-> get_campus_status(current_hour)[2]]

\* lines 113-170 up to the point where the call is issued: the arguments of
\* client.models.generate_content, or the exception raised before it
PrepareCall(body, current_hour) ==
    LET d == ParseRequest(body)
    IN  IF d.raised
        THEN d
        ELSE LET h == BuildFullHistory(d.value.history, d.value.user_message)
             IN  IF h.raised
                 THEN h
                 ELSE Returned([model |-> "gemini-2.5-flash",
                                contents |-> h.value,
                                system_instruction |-> system_prompt(current_hour),
                                tools |-> <<"google_search">>])

----------------------------------------------------------------------------
(* Reply extraction, bot.py 172-195 *)

\* A reply object of the external API, flattened:
\*   cands   : response.candidates is None ("none"), [] ("empty") or [c] ("one")
\*   content : c.content is None ("none") or an object ("obj")
\*   parts   : c.content.parts is None ("none"), [] ("empty") or [p] ("one")
\*   text    : p.text (ABSENT when the part has no text attribute)
\*   gm      : c has no grounding_metadata attribute ("absent"), it is None
\*             ("none") or an object ("obj")
\*   attrs   : gm.grounding_attributions: tag "absent", "none" or "list"
\* An attribution has web "absent", "none" or "obj", and the web citation has
\* uri and title, each a str, None, or absent.

\* the filter of the comprehension (line 186) raises AttributeError when it
\* reads a field the web citation does not have; `and` reads title only when
\* uri is truthy
AttrRaises(attr) ==
    /\ attr.web = "obj"
    /\ \/ attr.uri = ABSENT
       \/ Truthy(attr.uri) /\ attr.title = ABSENT

\* getattr(attr, 'web', None) and attr.web.uri and attr.web.title
AttrKept(attr) ==
    /\ attr.web = "obj"
    /\ Truthy(attr.uri)
    /\ Truthy(attr.title)

\* the list comprehension of lines 183-187, from index i on
RECURSIVE CollectSources(_, _, _)
CollectSources(sources, attributions, i) ==
    IF i > Len(attributions)
    THEN Returned(sources)
    ELSE IF AttrRaises(attributions[i])
         THEN Raised("Exception", <<>>)
         ELSE IF AttrKept(attributions[i])
              THEN CollectSources(Append(sources, [uri |-> attributions[i].uri,
                                                   title |-> attributions[i].title]),
                                  attributions, i + 1)
              ELSE CollectSources(sources, attributions, i + 1)

\* lines 180-187: sources = [] unless the candidate has grounding metadata
\* with a non-empty grounding_attributions list
ExtractSources(reply) ==
    IF reply.gm = "obj" /\ reply.attrs.tag = "list" /\ reply.attrs.items # <<>>
    THEN CollectSources(<<>>, reply.attrs.items, 1)
    ELSE Returned(<<>>)

\* the extraction without the empty-text check of lines 189-190
ExtractReplyNoEmptyCheck(reply) ==
    IF reply.cands = "one" /\ reply.content = "obj"
    THEN IF reply.parts # "one" \/ reply.text = ABSENT
         THEN Raised("Exception", <<>>)
         ELSE LET src == ExtractSources(reply)
              IN  IF src.raised
                  THEN src
                  ELSE Returned([status |-> 200,
                                 body |-> [response |-> reply.text,
                                           sources |-> src.value]])
    ELSE Returned([status |-> 200, body |-> [response |-> "", sources |-> <<>>]])

\* lines 173-195: the value returned by the try block, or the exception it raises
ExtractReply(reply) ==
    IF reply.cands = "one" /\ reply.content = "obj"
    THEN IF reply.parts # "one" \/ reply.text = ABSENT
         THEN Raised("Exception", <<>>)     \* parts[0] or .text raises
         ELSE LET src == ExtractSources(reply)
              IN  IF src.raised
                  THEN src
                  ELSE IF ~Truthy(reply.text)
                       THEN Raised("Exception", <<>>)   \* "API returned an empty text response."
                       ELSE Returned([status |-> 200,
                                      body |-> [response |-> reply.text,
                                                sources |-> src.value]])
    ELSE Raised("Exception", <<>>)          \* response_text stays ""

\* what the handler answers once the call has completed with outcome o
Respond(o) ==
    IF o.kind = "returned"
    THEN LET r == ExtractReply(o.reply)
         IN  IF r.raised THEN OnException(r) ELSE r.value
    ELSE OnException([type |-> o.kind, msg |-> o.msg])

----------------------------------------------------------------------------
(* Inputs: request bodies, API replies, provider error messages *)

\* all sequences over S of length at most n
RECURSIVE SeqsUpTo(_, _)
SeqsUpTo(S, n) ==
    IF n = 0 THEN {<<>>}
    ELSE LET shorter == SeqsUpTo(S, n - 1)
         IN  shorter \cup {Append(q, x) : q \in {t \in shorter : Len(t) = n - 1}, x \in S}

WellFormedTurns ==
    {[role |-> "user", text |-> "q1"], [role |-> "model", text |-> "a1"]}
MalformedTurns == {[role |-> "user"], [text |-> "q1"]}
Turns == WellFormedTurns \cup MalformedTurns

Histories ==
    {[tag |-> "absent", items |-> <<>>], [tag |-> "null", items |-> <<>>]}
        \cup {[tag |-> "list", items |-> h] : h \in SeqsUpTo(Turns, MaxHist)}

Bodies ==
    {[kind |-> "nojson"], [kind |-> "nonobject"]}
        \cup [kind : {"object"}, message : {ABSENT, "What bus goes to Ongole?"},
              history : Histories]

WebCitations ==
    [web : {"obj"}, uri : {ABSENT, "u1", "u2"}, title : {ABSENT, "t1"}]
        \cup {[web |-> "obj", uri |-> "u1", title |-> NONE],
              [web |-> "obj", uri |-> "", title |-> "t1"],
              [web |-> "obj", uri |-> NONE, title |-> ABSENT]}
Attributions ==
    {[web |-> "absent", uri |-> ABSENT, title |-> ABSENT],
     [web |-> "none", uri |-> ABSENT, title |-> ABSENT]} \cup WebCitations

NoAttrs == {[tag |-> "absent", items |-> <<>>], [tag |-> "none", items |-> <<>>]}
AttrLists == {[tag |-> "list", items |-> a] : a \in SeqsUpTo(Attributions, MaxAttrs)}

EmptyReply(cands, content, parts, text) ==
    [cands |-> cands, content |-> content, parts |-> parts, text |-> text,
     gm |-> "absent", attrs |-> [tag |-> "absent", items |-> <<>>]]

Replies ==
    {EmptyReply("none", "none", "none", ABSENT),
     EmptyReply("empty", "none", "none", ABSENT),
     EmptyReply("one", "none", "none", ABSENT),
     EmptyReply("one", "obj", "none", ABSENT),
     EmptyReply("one", "obj", "empty", ABSENT),
     EmptyReply("one", "obj", "one", ABSENT)}
        \cup [cands : {"one"}, content : {"obj"}, parts : {"one"},
              text : {NONE, "", "Bus 7."}, gm : {"absent", "none"},
              attrs : {[tag |-> "absent", items |-> <<>>]}]
        \cup [cands : {"one"}, content : {"obj"}, parts : {"one"},
              text : {"", "Bus 7."}, gm : {"obj"}, attrs : NoAttrs]
        \cup [cands : {"one"}, content : {"obj"}, parts : {"one"},
              text : {"Bus 7."}, gm : {"obj"}, attrs : AttrLists]

Alphabet == <<"a", "b", "c", "d", "e", "f", "g">>

\* "rate limited: too many requests"
RateLimited ==
    <<"r","a","t","e"," ","l","i","m","i","t","e","d",":"," ","t","o","o"," ","m","a","n",
      "y"," ","r","e","q","u","e","s","t","s">>

\* one message of every length up to MaxMsgLen, whose characters differ from
\* position to position, and the rate-limit message
Messages ==
    {[i \in 1..n |-> Alphabet[(i % 7) + 1]] : n \in 0..MaxMsgLen} \cup {RateLimited}

ApiOutcomes ==
    {[kind |-> "returned", reply |-> r, msg |-> <<>>] : r \in Replies}
        \cup {[kind |-> "APIError", reply |-> EmptyReply("none", "none", "none", ABSENT),
               msg |-> m] : m \in Messages}
        \cup {[kind |-> "Exception", reply |-> EmptyReply("none", "none", "none", ABSENT),
               msg |-> <<>>]}

NoOutcome == [kind |-> "none", reply |-> EmptyReply("none", "none", "none", ABSENT), msg |-> <<>>]
NoRequest == [kind |-> "none"]
NoCall == [model |-> "none", contents |-> <<>>,
           system_instruction |-> [transport |-> "", status |-> [header |-> "", json |-> <<>>]],
           tools |-> <<>>]
NoResponse == [status |-> 0, body |-> [pending |-> TRUE]]
Refused == [status |-> 0, body |-> [refused |-> TRUE]]

----------------------------------------------------------------------------
(* The process *)

Init ==
    /\ proc = "booting"
    /\ client = "unbound"
    /\ hour \in 0..23
    /\ pc = "idle"
    /\ request = NoRequest
    /\ submitted = NoCall
    /\ apiCalls = 0
    /\ parsed = FALSE
    /\ handled = FALSE
    /\ apiOutcome = NoOutcome
    /\ resp = NoResponse
    /\ statusResp = [hour |-> 0, status |-> 0, body |-> <<>>]

chatVars == <<pc, request, submitted, apiCalls, parsed, handled, apiOutcome, resp>>

\* Import of the module, lines 11-49: the key is read and checked, the client
\* is constructed, the transport file is read.  Any of the three can raise,
\* and nothing catches it: the process ends before it serves a request.
Startup ==
    /\ proc = "booting"
    /\ \E keySet \in BOOLEAN, clientBuilt \in BOOLEAN, fileFound \in BOOLEAN :
          /\ client' = IF keySet /\ clientBuilt THEN "Handle" ELSE "unbound"
          /\ proc' = IF keySet /\ clientBuilt /\ fileFound THEN "serving" ELSE "aborted"
    /\ UNCHANGED <<hour, statusResp>>
    /\ UNCHANGED chatVars

\* the wall clock
Tick ==
    /\ hour' = (hour + 1) % 24
    /\ UNCHANGED <<proc, client, statusResp>>
    /\ UNCHANGED chatVars

\* GET /status answering with the text rendering, the other element of the pair
StatusText ==
    /\ proc = "serving"
    /\ statusResp' = [hour |-> hour, status |-> 200, body |-> get_campus_status(hour)[2]]
    /\ UNCHANGED <<proc, client, hour>>
    /\ UNCHANGED chatVars

\* GET /status, lines 98-102
Status ==
    /\ proc = "serving"
    /\ statusResp' = [hour |-> hour, status |-> 200, body |-> get_campus_status(hour)[1]]
    /\ UNCHANGED <<proc, client, hour>>
    /\ UNCHANGED chatVars

\* POST /chat up to the blocking call, lines 105-170
ChatReceive ==
    /\ proc = "serving"
    /\ pc = "idle"
    /\ \E body \in Bodies :
          /\ request' = body
          /\ handled' = TRUE
          /\ IF client = "None"
             THEN /\ resp' = ErrorResponse(GenericError)
                  /\ pc' = "done"
                  /\ UNCHANGED <<submitted, apiCalls, parsed>>
             ELSE LET call == PrepareCall(body, hour)
                  IN  /\ parsed' = TRUE
                      /\ IF call.raised
                         THEN /\ resp' = OnException(call)
                              /\ pc' = "done"
                              /\ UNCHANGED <<submitted, apiCalls>>
                         ELSE /\ submitted' = call.value
                              /\ apiCalls' = apiCalls + 1
                              /\ pc' = "awaiting"
                              /\ UNCHANGED resp
    /\ UNCHANGED <<proc, client, hour, statusResp, apiOutcome>>

\* the call completes and the handler tries once more after a failure
ChatCompleteRetry ==
    /\ pc = "awaiting"
    /\ \E o \in ApiOutcomes :
          /\ apiOutcome' = o
          /\ resp' = Respond(o)
          /\ apiCalls' = IF Respond(o).status = 500 THEN apiCalls + 1 ELSE apiCalls
    /\ pc' = "done"
    /\ submitted' = NoCall
    /\ UNCHANGED <<proc, client, hour, statusResp, request, parsed, handled>>

\* the call completes (returns a reply or raises) and the handler answers,
\* lines 172-204; there is no second call
ChatComplete ==
    /\ pc = "awaiting"
    /\ \E o \in ApiOutcomes :
          /\ apiOutcome' = o
          /\ resp' = Respond(o)
    /\ pc' = "done"
    /\ submitted' = NoCall
    /\ UNCHANGED <<proc, client, hour, statusResp, request, apiCalls, parsed, handled>>

\* a /chat request sent to a process that ended during start-up: nothing
\* listens, the request gets no HTTP response
ChatUnserved ==
    /\ proc = "aborted"
    /\ pc = "idle"
    /\ resp' = Refused
    /\ pc' = "done"
    /\ UNCHANGED <<proc, client, hour, statusResp, request, submitted, apiCalls, parsed,
                   handled, apiOutcome>>

\* the browser has its answer; the next request starts from scratch
ChatNext ==
    /\ pc = "done"
    /\ pc' = "idle"
    /\ request' = NoRequest
    /\ submitted' = NoCall
    /\ apiCalls' = 0
    /\ parsed' = FALSE
    /\ handled' = FALSE
    /\ apiOutcome' = NoOutcome
    /\ resp' = NoResponse
    /\ UNCHANGED <<proc, client, hour, statusResp>>

\* the chat gateway: start-up and the life of a /chat request, at any hour
NextChat ==
    \/ Startup
    \/ ChatReceive
    \/ ChatComplete
    \/ ChatUnserved
    \/ ChatNext

SpecChat == Init /\ [][NextChat]_vars

\* the status endpoint under a running clock
NextStatus ==
    \/ Startup
    \/ Tick
    \/ Status

SpecStatus == Init /\ [][NextStatus]_vars

Next == NextChat \/ NextStatus

Spec == Init /\ [][Next]_vars

----------------------------------------------------------------------------
(* Properties *)

PeakProfile(d) ==
    /\ d["AI Lab 301 Occupancy"] = "High (85% occupied)"
    /\ d["Library Quiet Zone"] = "Moderately Busy"
    /\ d["Main Server Health"] = "Degraded (High Load)"
    /\ d["Campus Wi-Fi Status"] = "Operational (Moderate Speed)"
    /\ d["Power Supply"] = "Main Grid"

EveningProfile(d) ==
    /\ d["AI Lab 301 Occupancy"] = "Moderate (50% occupied)"
    /\ d["Library Quiet Zone"] = "Quiet Zone"
    /\ d["Main Server Health"] = "Operational (Normal)"
    /\ d["Campus Wi-Fi Status"] = "Operational (Fast Speed)"
    /\ d["Power Supply"] = "Main Grid"

OffHoursProfile(d) ==
    /\ d["AI Lab 301 Occupancy"] = "Low (5% occupied/Closed)"
    /\ d["Library Quiet Zone"] = "Closed"
    /\ d["Main Server Health"] = "Operational (Low Load)"
    /\ d["Campus Wi-Fi Status"] = "Operational (Low Speed)"
    /\ d["Power Supply"] = "Main Grid"

\* C1: a status snapshot computed at hour h is the peak profile for
\* h in 9..15, the evening profile for h in 16..19 and the off-hours profile
\* for every other hour; 8, 20, 23 and 0 are off-hours, 9 and 15 peak, 16 and
\* 19 evening.
C1_ProfileByHour ==
    statusResp.status = 200 =>
        LET h == statusResp.hour
            d == statusResp.body
        IN  /\ h \in 9..15 => PeakProfile(d)
            /\ h \in 16..19 => EveningProfile(d)
            /\ h \in (0..8) \cup (20..23) => OffHoursProfile(d)
            /\ h \in {8, 20, 23, 0} => OffHoursProfile(d)
            /\ h \in {9, 15} => PeakProfile(d)
            /\ h \in {16, 19} => EveningProfile(d)

\* a snapshot was served at the first hour after the peak window
C1_Witness == statusResp.status = 200 /\ statusResp.hour = 16

\* the history and message a request body carries, with the defaults of .get
HistoryOf(body) == IF body.history.tag = "list" THEN body.history.items ELSE <<>>
MessageOf(body) == IF body.message = ABSENT THEN "" ELSE body.message

\* C2: the turn sequence in flight to the external model has one turn per
\* history turn, in the same order and with the same role and text, followed
\* by one last turn of role "user" whose text is the new message.
C2_TurnsSubmitted ==
    pc = "awaiting" =>
        LET h == HistoryOf(request)
            c == submitted.contents
        IN  /\ Len(c) = Len(h) + 1
            /\ \A i \in 1..Len(h) :
                  /\ c[i].role = h[i].role
                  /\ c[i].parts = <<[text |-> h[i].text]>>
            /\ c[Len(c)].role = "user"
            /\ c[Len(c)].parts = <<[text |-> MessageOf(request)]>>

\* a call is in flight for a history of two different turns and a message
C2_Witness ==
    /\ pc = "awaiting"
    /\ Len(HistoryOf(request)) = 2
    /\ HistoryOf(request)[1] # HistoryOf(request)[2]
    /\ request.message = "What bus goes to Ongole?"

\* the reply carries an answer text: a candidate, its content, a part, and
\* a text that is neither missing nor empty
UsableText(reply) ==
    /\ reply.cands = "one"
    /\ reply.content = "obj"
    /\ reply.parts = "one"
    /\ reply.text \notin {ABSENT, NONE, ""}

\* C3: when the call returned a reply without a usable answer text, the
\* request ends with status 500 and a body that holds error and no response.
C3_EmptyReplyIs500 ==
    (pc = "done" /\ apiOutcome.kind = "returned" /\ ~UsableText(apiOutcome.reply)) =>
        /\ resp.status = 500
        /\ "error" \in DOMAIN resp.body
        /\ "response" \notin DOMAIN resp.body

\* a request ended after the API returned a part whose text is empty
C3_Witness ==
    /\ pc = "done"
    /\ apiOutcome.kind = "returned"
    /\ apiOutcome.reply.parts = "one"
    /\ apiOutcome.reply.text = ""

\* C4: when the call raised a provider error with message m, the request
\* ends with status 500 and a body that holds only error; the error text
\* starts with the fixed prefix, continues with the first 50 characters of m
\* (all of m when it has 50 or fewer) and nothing more of m: what follows is
\* the fixed closing text of the message.
C4_ProviderErrorExcerpt ==
    (pc = "done" /\ apiOutcome.kind = "APIError") =>
        LET m == apiOutcome.msg
            k == IF Len(m) <= 50 THEN Len(m) ELSE 50
            p == Len(ApiErrorPrefix)
        IN  /\ resp.status = 500
            /\ DOMAIN resp.body = {"error"}
            /\ Len(resp.body.error) = p + k + Len(ApiErrorClose)
            /\ SubSeq(resp.body.error, 1, p) = ApiErrorPrefix
            /\ SubSeq(resp.body.error, p + 1, p + k) = SubSeq(m, 1, k)
            /\ SubSeq(resp.body.error, p + k + 1, Len(resp.body.error)) = ApiErrorClose

\* a request ended after a provider error whose message has more than 50 characters
C4_Witness == pc = "done" /\ apiOutcome.kind = "APIError" /\ Len(apiOutcome.msg) > 50

\* the attribution records of a reply
RecordsOf(reply) ==
    IF reply.gm = "obj" /\ reply.attrs.tag = "list" THEN reply.attrs.items ELSE <<>>

\* a record exposes a non-empty uri and a non-empty title
Exposes(attr) ==
    /\ attr.web = "obj"
    /\ attr.uri \notin {ABSENT, NONE, ""}
    /\ attr.title \notin {ABSENT, NONE, ""}

\* the records that expose both, in the order of the reply, as {uri, title}
RECURSIVE ExpectedSources(_)
ExpectedSources(records) ==
    IF records = <<>>
    THEN <<>>
    ELSE LET rest == ExpectedSources(Tail(records))
         IN  IF Exposes(Head(records))
             THEN <<[uri |-> Head(records).uri, title |-> Head(records).title]>> \o rest
             ELSE rest

\* C5: when the reply has a usable answer text, the request ends with status
\* 200, the extracted text, and as sources exactly the attribution records
\* that expose a non-empty uri and title, in the order of the reply (none
\* when the reply carries no records).
C5_SourcesAreExposedRecords ==
    (pc = "done" /\ apiOutcome.kind = "returned" /\ UsableText(apiOutcome.reply)) =>
        /\ resp.status = 200
        /\ resp.body = [response |-> apiOutcome.reply.text,
                        sources |-> ExpectedSources(RecordsOf(apiOutcome.reply))]

\* the body parses and its history translates: a JSON object whose history,
\* when given, is a list of turns that each have a role and a text
PrepSucceeds(body) ==
    /\ body.kind = "object"
    /\ body.history.tag \in {"absent", "list"}
    /\ \A i \in 1..Len(HistoryOf(body)) : DOMAIN HistoryOf(body)[i] = {"role", "text"}

\* C6: a request issues at most one call to the external model: exactly one
\* when parsing and translation succeed, none when they fail, and once the
\* call has completed, with a reply or a failure, the count is still one.
C6_SingleCall ==
    /\ apiCalls <= 1
    /\ (handled /\ PrepSucceeds(request)) => apiCalls = 1
    /\ (handled /\ ~PrepSucceeds(request)) => apiCalls = 0
    /\ (pc = "done" /\ apiOutcome.kind # "none") => apiCalls = 1

\* a request ended with an error after its one call failed
C6_Witness ==
    /\ pc = "done"
    /\ apiOutcome.kind \in {"APIError", "Exception"}
    /\ resp.status = 500
    /\ apiCalls = 1

\* C7: GET /status answers 200 with a mapping whose keys are exactly the five
\* metric names and which is the snapshot get_campus_status computes for the
\* hour of the request.
C7_StatusEndpoint ==
    statusResp.status # 0 =>
        /\ statusResp.status = 200
        /\ DOMAIN statusResp.body =
              {"AI Lab 301 Occupancy", "Library Quiet Zone", "Main Server Health",
               "Campus Wi-Fi Status", "Power Supply"}
        /\ statusResp.body = get_campus_status(statusResp.hour)[1]

\* a status request was served in the evening window
C7_Witness == statusResp.status = 200 /\ statusResp.hour = 19 /\ hour = 19

\* C8: a /chat request that arrives while the client handle is not
\* initialized ends with status 500 and the generic message, without the
\* request being parsed and without a call to the external model.
C8_UninitializedClientIs500 ==
    (pc = "done" /\ client # "Handle") =>
        /\ resp.status = 500
        /\ DOMAIN resp.body = {"error"}
        /\ resp.body.error = GenericError
        /\ ~parsed
        /\ apiCalls = 0

\* C9: when the reply has a usable answer text, the request ends with status
\* 200 and that text, whatever the grounding metadata looks like.
C9_MetadataNeverAborts ==
    (pc = "done" /\ apiOutcome.kind = "returned" /\ UsableText(apiOutcome.reply)) =>
        /\ resp.status = 200
        /\ "response" \in DOMAIN resp.body
        /\ resp.body.response = apiOutcome.reply.text

\* C10: a request that entered the handler ends either with status 200 and
\* a body of response and sources, or with status 500 and a body of error
\* alone; unless the API client raised a provider error, the error is the
\* fixed generic message.
C10_TwoResponseShapes ==
    (pc = "done" /\ handled) =>
        /\ \/ resp.status = 200 /\ DOMAIN resp.body = {"response", "sources"}
           \/ resp.status = 500 /\ DOMAIN resp.body = {"error"}
        /\ (resp.status = 500 /\ apiOutcome.kind # "APIError") =>
              resp.body.error = GenericError

\* a request whose body is not JSON ended
C10_Witness ==
    /\ pc = "done"
    /\ handled
    /\ request.kind = "nojson"
    /\ resp.status = 500

====
